---- MODULE Spec2Model ----
(***************************************************************************)
(* Model of src/src/Pagination.ts: the Pagination<T> cursor (constructor,  *)
(* prev, next, all) together with the fetch capability getWithToken that   *)
(* the request layer binds into every cursor.                              *)
(*                                                                         *)
(* JavaScript values are records with a tag: undefined, null, a string (a  *)
(* sequence of character codes, <<>> being the empty string "") or a       *)
(* number.  Cursors live in a heap (a sequence indexed by object identity) *)
(* so that "this" and the cursors returned by fetches are distinct objects.*)
(* A method call is split at its awaits on getWithToken: one action runs   *)
(* the synchronous code up to the fetch invocation, one action per fetch   *)
(* outcome runs the continuation up to the next fetch or the return.       *)
(***************************************************************************)
EXTENDS Integers, Sequences, FiniteSets

\* Longest chain of pages served by the fetch capability.
MaxPages == 4
\* Number of method calls a client makes on the cursors it holds.
MaxCalls == 2

VARIABLES chain, heap, calls, lastNew

vars == <<chain, heap, calls, lastNew>>

----------------------------------------------------------------------------
\* JavaScript values

Undefined == [tag |-> "undefined", str |-> <<>>, num |-> 0]

Null == [tag |-> "null", str |-> <<>>, num |-> 0]

Str(s) == [tag |-> "string", str |-> s, num |-> 0]

Num(n) == [tag |-> "number", str |-> <<>>, num |-> n]

\* utils.isNullish: the value is null or undefined.
isNullish(v) == v.tag \in {"null", "undefined"}

\* The nullish coalescing of the constructor: v ?? null.
OrNull(v) == IF isNullish(v) THEN Null ELSE v

\* JavaScript truthiness of a token (string | null): what `!token` negates.
Truthy(v) == (v.tag = "string" /\ v.str # <<>>) \/ (v.tag = "number" /\ v.num # 0)

\* constants.LIKELY_BUG: the message of the Error the constructor throws.
LIKELY_BUG == "LIKELY_BUG"

\* The failures (YouTubesJsErrors) the fetch capability can return.
YouTubesJsErrors == {"E1", "E2"}

----------------------------------------------------------------------------
\* The paginated collection behind the fetch capability: n pages, page p
\* being reached with its own page token.  emptyAt names the page whose
\* token is the empty string (0: no page has the empty token).

Chains == {ch \in [n : 1..MaxPages, emptyAt : 0..MaxPages] : ch.emptyAt <= ch.n}

\* The page token of page p.
Tok(ch, p) == IF p = ch.emptyAt THEN <<>> ELSE <<p>>

\* The page a token designates (0: none).
PageOf(ch, s) == IF \E p \in 1..ch.n : Tok(ch, p) = s THEN CHOOSE p \in 1..ch.n : Tok(ch, p) = s ELSE 0

\* The payload of page p (T is an array of items here, one item per page).
Data(p) == <<p>>

\* The identity of the fetch function bound into the cursors of a collection.
GetWithToken == "getWithToken"

\* The PaginationOptions the request layer builds from the API response for
\* page p; a missing token is given as `absent` (null or undefined).
PageOptions(ch, p, absentPrev, absentNext) == [data |-> Data(p), prevToken |-> IF p > 1 THEN Str(Tok(ch, p - 1)) ELSE absentPrev, nextToken |-> IF p < ch.n THEN Str(Tok(ch, p + 1)) ELSE absentNext, resultsPerPage |-> Num(Len(Data(p))), totalResults |-> Num(ch.n), getWithToken |-> GetWithToken]

----------------------------------------------------------------------------
\* Pagination.constructor: throws Error(LIKELY_BUG) when a count is nullish,
\* else builds the cursor with nullish tokens normalised to null.

Thrown(msg) == [thrown |-> TRUE, message |-> msg, cursor |-> [data |-> <<>>, resultsPerPage |-> Null, totalResults |-> Null, prevToken |-> Null, nextToken |-> Null, getWithToken |-> ""]]

Built(cur) == [thrown |-> FALSE, message |-> "", cursor |-> cur]

\* Mutant of constructor: the counts tested for falsiness (`!resultsPerPage`),
\* so that a count of 0 is taken for a missing one.
constructor_Falsy(opts) == IF ~Truthy(opts.resultsPerPage) \/ ~Truthy(opts.totalResults) THEN Thrown(LIKELY_BUG) ELSE Built([data |-> opts.data, resultsPerPage |-> opts.resultsPerPage, totalResults |-> opts.totalResults, prevToken |-> OrNull(opts.prevToken), nextToken |-> OrNull(opts.nextToken), getWithToken |-> opts.getWithToken])

constructor(opts) == IF isNullish(opts.resultsPerPage) \/ isNullish(opts.totalResults) THEN Thrown(LIKELY_BUG) ELSE Built([data |-> opts.data, resultsPerPage |-> opts.resultsPerPage, totalResults |-> opts.totalResults, prevToken |-> OrNull(opts.prevToken), nextToken |-> OrNull(opts.nextToken), getWithToken |-> opts.getWithToken])

----------------------------------------------------------------------------
\* Results: Result<Pagination<T>, E> | null for prev()/next() and the fetch
\* capability (cursor: the identity of the cursor of an ok), Result<T[], E>
\* for all() (value: the sequence of page payloads of an ok).

NoRet == [kind |-> "none", cursor |-> 0, value |-> <<>>, error |-> ""]

ReturnNull == [kind |-> "null", cursor |-> 0, value |-> <<>>, error |-> ""]

ok(id) == [kind |-> "ok", cursor |-> id, value |-> <<>>, error |-> ""]

okAll(result) == [kind |-> "ok", cursor |-> 0, value |-> result, error |-> ""]

err(e) == [kind |-> "err", cursor |-> 0, value |-> <<>>, error |-> e]

\* Where a method stands after a run of synchronous code: suspended on a
\* getWithToken(token) it has just invoked, or returned.  `this` is the
\* state of the cursor the method was called on, `result` the local array
\* of all().
Await(dir, token, result, this) == [pc |-> "await", dir |-> dir, token |-> token, result |-> result, ret |-> NoRet, this |-> this]

Return(ret, this) == [pc |-> "done", dir |-> "none", token |-> <<>>, result |-> <<>>, ret |-> ret, this |-> this]

----------------------------------------------------------------------------
\* Mutant of prev: the `if (!this.prevToken) return null` guard dropped.
prev_Unguarded(this) == [kind |-> "fetch", token |-> this.prevToken.str]

\* Pagination.prev, up to its await: null without a fetch when !prevToken,
\* else the invocation getWithToken(prevToken).
prev(this) == IF ~Truthy(this.prevToken) THEN [kind |-> "null", token |-> <<>>] ELSE [kind |-> "fetch", token |-> this.prevToken.str]

\* Pagination.next, up to its await.
next(this) == IF ~Truthy(this.nextToken) THEN [kind |-> "null", token |-> <<>>] ELSE [kind |-> "fetch", token |-> this.nextToken.str]

\* Mutant of returnData: a failed fetch reported as an error of the cursor's
\* own making.
returnData_Wrapped(outcome) == IF outcome.kind = "err" THEN err(LIKELY_BUG) ELSE outcome

\* prev()/next() after the await: `return data`, the outcome as it came.
returnData(outcome) == outcome

\* A prev() call from its start to its first suspension or return.
prevCall(this) == IF prev(this).kind = "null" THEN Return(ReturnNull, this) ELSE Await("prev", prev(this).token, <<>>, this)

\* A next() call from its start to its first suspension or return.
nextCall(this) == IF next(this).kind = "null" THEN Return(ReturnNull, this) ELSE Await("next", next(this).token, <<>>, this)

\* all(), the forward walk at `next = await from.next()`: a null ends the
\* loop and all() returns ok(result).
walkNext(this, from, result) == IF next(from).kind = "null" THEN Return(okAll(result), this) ELSE Await("next", next(from).token, result, this)

\* Mutant of walkPrev: the forward walk goes on from the last page the
\* backward walk reached (`from.next()` for `this.next()`).
walkPrev_NoRestart(this, from, result) == IF prev(from).kind = "null" THEN walkNext(this, from, result) ELSE Await("prev", prev(from).token, result, this)

\* all(), the backward walk at `prev = await from.prev()`: a null ends the
\* loop and the forward walk starts from `this`.
walkPrev(this, from, result) == IF prev(from).kind = "null" THEN walkNext(this, this, result) ELSE Await("prev", prev(from).token, result, this)

\* all() from its start: result = [this.data], then this.prev().
all(this) == walkPrev(this, this, <<this.data>>)

\* Mutant of allPrevLoop: a failed backward fetch only ends the backward
\* walk (`break` for `return err(prev.error)`).
allPrevLoop_Break(this, result, outcome, value) == IF outcome.kind = "err" THEN walkNext(this, this, result) ELSE walkPrev(this, value, <<value.data>> \o result)

\* Mutant of allPrevLoop: the walk moves the cursor itself onto the page it
\* fetched (`this.data = ...; this.prevToken = ...`).
allPrevLoop_MovesThis(this, result, outcome, value) == IF outcome.kind = "err" THEN Return(err(outcome.error), this) ELSE walkPrev([this EXCEPT !.data = value.data, !.prevToken = value.prevToken], value, <<value.data>> \o result)

\* Mutant of allPrevLoop: the loop never advances (`prev = await this.prev()`
\* for `prev = await prev.value.prev()`).
allPrevLoop_NoAdvance(this, result, outcome, value) == IF outcome.kind = "err" THEN Return(err(outcome.error), this) ELSE walkPrev(this, this, <<value.data>> \o result)

\* all(), one turn of `while (prev)` on the outcome of a backward fetch
\* (value: the cursor of an ok outcome).
allPrevLoop(this, result, outcome, value) == IF outcome.kind = "err" THEN Return(err(outcome.error), this) ELSE walkPrev(this, value, <<value.data>> \o result)

\* Mutant of allNextLoop: a failed forward fetch returns what was gathered
\* so far (`return ok(result)` for `return err(next.error)`).
allNextLoop_Partial(this, result, outcome, value) == IF outcome.kind = "err" THEN Return(okAll(result), this) ELSE walkNext(this, value, result \o <<value.data>>)

\* Mutant of allNextLoop: the forward loop steps with prev()
\* (`next = await next.value.prev()`), a backward fetch after a forward one.
allNextLoop_StepsBack(this, result, outcome, value) == IF outcome.kind = "err" THEN Return(err(outcome.error), this) ELSE IF prev(value).kind = "null" THEN Return(okAll(result \o <<value.data>>), this) ELSE Await("prev", prev(value).token, result \o <<value.data>>, this)

\* Mutant of allNextLoop: the accumulator aliases the cursor's own payload
\* (`const result = this.data`), so that pushing a page grows this.data.
allNextLoop_Aliased(this, result, outcome, value) == IF outcome.kind = "err" THEN Return(err(outcome.error), this) ELSE walkNext([this EXCEPT !.data = @ \o value.data], value, result \o <<value.data>>)

\* all(), one turn of `while (next)` on the outcome of a forward fetch.
allNextLoop(this, result, outcome, value) == IF outcome.kind = "err" THEN Return(err(outcome.error), this) ELSE walkNext(this, value, result \o <<value.data>>)

\* The continuation of a suspended call on the outcome of its fetch.
resume(call, this, outcome, value) == IF call.op = "all" THEN (IF call.dir = "prev" THEN allPrevLoop(this, call.result, outcome, value) ELSE allNextLoop(this, call.result, outcome, value)) ELSE Return(returnData(outcome), this)

----------------------------------------------------------------------------
\* The client's calls.  Every invocation of the fetch capability is logged
\* with the call that made it (a spy on getWithToken).

Calls == 1..MaxCalls

IdleCall == [op |-> "none", self |-> 0, pc |-> "idle", dir |-> "none", result |-> <<>>, ret |-> NoRet, log |-> <<>>]

Invocation(dir, token) == [dir |-> dir, token |-> token, outcome |-> NoRet]

\* The log after the pending invocation got its outcome.
Settled(log, outcome) == [log EXCEPT ![Len(log)] = [@ EXCEPT !.outcome = outcome]]

\* The log after a step: a suspended step has invoked the fetch capability.
Logged(log, step) == IF step.pc = "await" THEN Append(log, Invocation(step.dir, step.token)) ELSE log

\* The call record after a step of the method.
Stepped(op, id, log, step) == [op |-> op, self |-> id, pc |-> step.pc, dir |-> step.dir, result |-> step.result, ret |-> step.ret, log |-> Logged(log, step)]

\* The client awaits each call before it makes the next one.
CanStart(c) == calls[c].pc = "idle" /\ \A d \in Calls : d < c => calls[d].pc = "done"

NoAttempt == [made |-> FALSE, opts |-> [data |-> <<>>, prevToken |-> Null, nextToken |-> Null, resultsPerPage |-> Null, totalResults |-> Null, getWithToken |-> ""], thrown |-> FALSE, message |-> ""]

\* The counts an API response may carry: missing, zero, or the right one.
Counts(right) == {Undefined, Null, Num(0), Num(right)}

Absent == {Undefined, Null}

Init == /\ chain \in Chains
        /\ heap = <<>>
        /\ calls = [c \in Calls |-> IdleCall]
        /\ lastNew = NoAttempt

\* new Pagination(opts) by the request layer for page p of the collection,
\* with the counts as the API response gave them (possibly missing).
New(p, absentPrev, absentNext, rpp, total) ==
    LET opts == [PageOptions(chain, p, absentPrev, absentNext) EXCEPT !.resultsPerPage = rpp, !.totalResults = total]
        r == constructor(opts)
    IN /\ heap = <<>>
       /\ lastNew' = [made |-> TRUE, opts |-> opts, thrown |-> r.thrown, message |-> r.message]
       /\ heap' = IF r.thrown THEN heap ELSE <<r.cursor>>
       /\ UNCHANGED <<chain, calls>>

\* The cursors the client holds: the one it constructed and those returned
\* to it by prev() and next().
Held == {1} \cup {calls[c].ret.cursor : c \in {d \in Calls : calls[d].pc = "done" /\ calls[d].ret.kind = "ok" /\ calls[d].op \in {"prev", "next"}}}

Start(c, op, id, step) ==
    /\ CanStart(c)
    /\ id \in DOMAIN heap \cap Held
    /\ calls' = [calls EXCEPT ![c] = Stepped(op, id, <<>>, step)]
    /\ heap' = [heap EXCEPT ![id] = step.this]
    /\ UNCHANGED <<chain, lastNew>>

CallPrev(c, id) == id \in DOMAIN heap /\ Start(c, "prev", id, prevCall(heap[id]))

CallNext(c, id) == id \in DOMAIN heap /\ Start(c, "next", id, nextCall(heap[id]))

CallAll(c, id) == id \in DOMAIN heap /\ Start(c, "all", id, all(heap[id]))

\* The token of the invocation call c is suspended on.
Pending(c) == calls[c].log[Len(calls[c].log)].token

\* getWithToken(token) by the request layer: the page the token designates,
\* built by the constructor from a well-formed API response.
getWithToken(ch, token, absentPrev, absentNext) == constructor(PageOptions(ch, PageOf(ch, token), absentPrev, absentNext))

\* The pending fetch of call c succeeds with a new cursor.
FetchOk(c, absentPrev, absentNext) ==
    /\ calls[c].pc = "await"
    /\ PageOf(chain, Pending(c)) # 0
    /\ LET r == getWithToken(chain, Pending(c), absentPrev, absentNext)
           id == Len(heap) + 1
           self == calls[c].self
           step == resume(calls[c], heap[self], ok(id), r.cursor)
       IN /\ ~r.thrown
          /\ heap' = [Append(heap, r.cursor) EXCEPT ![self] = step.this]
          /\ calls' = [calls EXCEPT ![c] = Stepped(calls[c].op, self, Settled(calls[c].log, ok(id)), step)]
    /\ UNCHANGED <<chain, lastNew>>

\* The pending fetch of call c fails with error e.
FetchErr(c, e) ==
    /\ calls[c].pc = "await"
    /\ LET self == calls[c].self
           step == resume(calls[c], heap[self], err(e), heap[self])
       IN /\ heap' = [heap EXCEPT ![self] = step.this]
          /\ calls' = [calls EXCEPT ![c] = Stepped(calls[c].op, self, Settled(calls[c].log, err(e)), step)]
    /\ UNCHANGED <<chain, lastNew>>

Next == \/ \E p \in 1..chain.n, ap \in Absent, an \in Absent, rpp \in Counts(1), total \in Counts(chain.n) \ {Num(0)} : New(p, ap, an, rpp, total)
        \/ \E c \in Calls, id \in DOMAIN heap : CallPrev(c, id)
        \/ \E c \in Calls, id \in DOMAIN heap : CallNext(c, id)
        \/ \E c \in Calls, id \in DOMAIN heap : CallAll(c, id)
        \/ \E c \in Calls, ap \in Absent, an \in Absent : FetchOk(c, ap, an)
        \/ \E c \in Calls, e \in YouTubesJsErrors : FetchErr(c, e)

Spec == Init /\ [][Next]_vars

----------------------------------------------------------------------------
\* Vocabulary of the properties

\* The calls that have returned.
Done(c) == calls[c].pc = "done"

\* The cursor the call was made on.
Self(c) == heap[calls[c].self]

\* The positions of the failed fetches in the call's log.
Failures(c) == {i \in DOMAIN calls[c].log : calls[c].log[i].outcome.kind = "err"}

\* The first failed fetch of the call (when it has one).
FirstFailure(c) == CHOOSE i \in Failures(c) : \A j \in Failures(c) : i <= j

\* The cursor is page p of the chain: its payload and its two links.
IsPage(cur, p) == /\ p \in 1..chain.n
                  /\ cur.data = Data(p)
                  /\ cur.prevToken = (IF p > 1 THEN Str(Tok(chain, p - 1)) ELSE Null)
                  /\ cur.nextToken = (IF p < chain.n THEN Str(Tok(chain, p + 1)) ELSE Null)

\* The payloads of the whole chain in page order.
WholeChain == [i \in 1..chain.n |-> Data(i)]

\* C1: all() on any page of a consistently linked chain, every fetch of the
\* call having succeeded, returns ok with the payloads of all n pages in
\* chain order.
C1_AllReturnsWholeChain == \A c \in Calls : (calls[c].op = "all" /\ Done(c) /\ Failures(c) = {} /\ \E p \in 1..chain.n : IsPage(Self(c), p)) => (calls[c].ret.kind = "ok" /\ calls[c].ret.value = WholeChain)

\* C2: all() is all-or-nothing: once any fetch of the call has failed, the
\* call has returned err with the error of the first failed fetch and no
\* payload at all.
C2_AllOrNothing == \A c \in Calls : (calls[c].op = "all" /\ Failures(c) # {}) => (Done(c) /\ calls[c].ret = err(calls[c].log[FirstFailure(c)].outcome.error) /\ calls[c].ret.value = <<>> /\ calls[c].result = <<>>)

\* C2 witness: an all() that had prepended a page on the backward walk and
\* then failed on a forward fetch.
C2_Witness == \E c \in Calls : /\ calls[c].op = "all" /\ Done(c)
                               /\ Len(calls[c].log) >= 2
                               /\ calls[c].log[1].dir = "prev" /\ calls[c].log[1].outcome.kind = "ok"
                               /\ calls[c].log[Len(calls[c].log)].dir = "next"
                               /\ calls[c].log[Len(calls[c].log)].outcome.kind = "err"
                               /\ calls[c].ret.kind = "err"

\* C3: when a backward fetch of all() has failed, the call returns that
\* failure and never invokes the fetch capability with a next token.
C3_NoForwardAfterBackwardFailure == \A c \in Calls : (calls[c].op = "all" /\ \E i \in Failures(c) : calls[c].log[i].dir = "prev") => (Done(c) /\ calls[c].ret = err(calls[c].log[FirstFailure(c)].outcome.error) /\ \A j \in DOMAIN calls[c].log : calls[c].log[j].dir # "next")

\* C3 witness: the second backward fetch failed on a cursor that has a next
\* page, whose fetch would have been invoked.
C3_Witness == \E c \in Calls : /\ calls[c].op = "all" /\ Done(c)
                               /\ Len(calls[c].log) = 2
                               /\ calls[c].log[1].outcome.kind = "ok"
                               /\ calls[c].log[2].dir = "prev" /\ calls[c].log[2].outcome.kind = "err"
                               /\ Truthy(Self(c).nextToken)
                               /\ calls[c].ret.kind = "err"

\* C4: prev() on a cursor built with prevToken absent (null or undefined)
\* returns null and invokes the fetch capability zero times; next() likewise
\* with nextToken.
C4_AbsentTokenNoFetch == \A c \in Calls :
    /\ (calls[c].op = "prev" /\ (Self(c).prevToken = Null \/ (calls[c].self = 1 /\ lastNew.opts.prevToken \in {Null, Undefined}))) => (Done(c) /\ calls[c].ret = ReturnNull /\ calls[c].log = <<>>)
    /\ (calls[c].op = "next" /\ (Self(c).nextToken = Null \/ (calls[c].self = 1 /\ lastNew.opts.nextToken \in {Null, Undefined}))) => (Done(c) /\ calls[c].ret = ReturnNull /\ calls[c].log = <<>>)

\* C4 witness: prev() was called on the cursor built with prevToken not
\* provided, and next() on a cursor built with nextToken null.
C4_Witness == /\ lastNew.made /\ lastNew.opts.prevToken = Undefined
              /\ \E c \in Calls : calls[c].op = "prev" /\ calls[c].self = 1 /\ Done(c)
              /\ \E c \in Calls : calls[c].op = "next" /\ Self(c).nextToken = Null /\ Done(c)

\* C5: prev() on a cursor whose prevToken is a string (the empty string
\* included) invokes the fetch capability exactly once, with that token, and
\* returns the outcome of that invocation, never null; next() likewise.
C5_PresentTokenOneFetch == \A c \in Calls :
    /\ (calls[c].op = "prev" /\ Done(c) /\ Self(c).prevToken.tag = "string") => (Len(calls[c].log) = 1 /\ calls[c].log[1].token = Self(c).prevToken.str /\ calls[c].ret = calls[c].log[1].outcome /\ calls[c].ret.kind \in {"ok", "err"})
    /\ (calls[c].op = "next" /\ Done(c) /\ Self(c).nextToken.tag = "string") => (Len(calls[c].log) = 1 /\ calls[c].log[1].token = Self(c).nextToken.str /\ calls[c].ret = calls[c].log[1].outcome /\ calls[c].ret.kind \in {"ok", "err"})

\* C5 failing input: prev() was called on a cursor whose prevToken is the
\* empty string.
C5_EmptyTokenCase == \E c \in Calls : calls[c].op = "prev" /\ Done(c) /\ Self(c).prevToken = Str(<<>>) /\ calls[c].ret = ReturnNull /\ calls[c].log = <<>>

\* C6: new Pagination(opts) throws the fatal error and yields no cursor when
\* resultsPerPage or totalResults is null or undefined; with both present it
\* yields the cursor, whatever the tokens are.
C6_ConstructorCounts == lastNew.made =>
    LET missing == lastNew.opts.resultsPerPage.tag \in {"null", "undefined"} \/ lastNew.opts.totalResults.tag \in {"null", "undefined"}
    IN /\ missing => (lastNew.thrown /\ lastNew.message = LIKELY_BUG /\ heap = <<>>)
       /\ ~missing => /\ ~lastNew.thrown /\ Len(heap) >= 1
                      /\ heap[1].data = lastNew.opts.data
                      /\ heap[1].resultsPerPage = lastNew.opts.resultsPerPage
                      /\ heap[1].totalResults = lastNew.opts.totalResults
                      /\ heap[1].prevToken = (IF lastNew.opts.prevToken.tag = "string" THEN lastNew.opts.prevToken ELSE Null)
                      /\ heap[1].nextToken = (IF lastNew.opts.nextToken.tag = "string" THEN lastNew.opts.nextToken ELSE Null)

\* C6 witness: a construction with resultsPerPage present (0) and
\* totalResults not provided has thrown, a token being present.
C6_Witness == lastNew.made /\ lastNew.thrown /\ lastNew.opts.resultsPerPage = Num(0) /\ lastNew.opts.totalResults = Undefined /\ lastNew.opts.prevToken.tag = "string" /\ heap = <<>>

\* C7: no caching: every prev() on a cursor with a present prevToken makes
\* its own single fetch with that token (k calls, k fetches), two such calls
\* on the same cursor that succeed return two cursors with equal data; the
\* same for next().
C7_NoCaching == \A c \in Calls :
    /\ (calls[c].op = "prev" /\ Done(c) /\ Self(c).prevToken.tag = "string") => (Len(calls[c].log) = 1 /\ calls[c].log[1].token = Self(c).prevToken.str)
    /\ (calls[c].op = "next" /\ Done(c) /\ Self(c).nextToken.tag = "string") => (Len(calls[c].log) = 1 /\ calls[c].log[1].token = Self(c).nextToken.str)
    /\ \A d \in Calls \ {c} : (calls[c].op \in {"prev", "next"} /\ calls[d].op = calls[c].op /\ calls[d].self = calls[c].self /\ calls[c].ret.kind = "ok" /\ calls[d].ret.kind = "ok") => (calls[c].ret.cursor # calls[d].ret.cursor /\ heap[calls[c].ret.cursor].data = heap[calls[d].ret.cursor].data)

\* The cursor the fetch capability builds for page p.
PageCursor(p) == constructor(PageOptions(chain, p, Null, Null)).cursor

\* C8: round trip: on a consistent chain with no failing fetch, next() on
\* page p < n yields a cursor equal in content to page p + 1, prev() on page
\* p > 1 one equal to page p - 1, and (X.next()).prev() one equal to X.
C8_RoundTrip == \A c \in Calls : (Done(c) /\ Failures(c) = {}) =>
    /\ \A p \in 1..chain.n : (calls[c].op = "next" /\ p < chain.n /\ Self(c) = PageCursor(p)) => (calls[c].ret.kind = "ok" /\ heap[calls[c].ret.cursor] = PageCursor(p + 1))
    /\ \A p \in 1..chain.n : (calls[c].op = "prev" /\ p > 1 /\ Self(c) = PageCursor(p)) => (calls[c].ret.kind = "ok" /\ heap[calls[c].ret.cursor] = PageCursor(p - 1))
    /\ \A d \in Calls : (calls[d].op = "next" /\ calls[d].ret.kind = "ok" /\ calls[c].op = "prev" /\ calls[c].self = calls[d].ret.cursor /\ \E p \in 1..chain.n : Self(d) = PageCursor(p)) => (calls[c].ret.kind = "ok" /\ heap[calls[c].ret.cursor] = Self(d))

\* C9: prev(), next() and all() never change a cursor: in every step every
\* cursor keeps its data, counts, tokens and fetch capability, and every page
\* a fetch yields is a cursor that did not exist before.
C9_CursorsImmutable == [][/\ \A id \in DOMAIN heap : id \in DOMAIN heap' /\ heap'[id] = heap[id]
                          /\ \A c \in Calls : \A i \in DOMAIN calls'[c].log : (calls'[c].log[i].outcome.kind = "ok" /\ (i \notin DOMAIN calls[c].log \/ calls[c].log[i].outcome.kind = "none")) => (calls'[c].log[i].outcome.cursor \notin DOMAIN heap /\ calls'[c].log[i].outcome.cursor \in DOMAIN heap')]_vars

\* C9 witness: the constructed cursor, after an all() that walked both ways
\* and a failed call on it, is still what the constructor built.
C9_Witness == /\ lastNew.made /\ Len(heap) >= 1
              /\ heap[1] = constructor(lastNew.opts).cursor
              /\ \E c \in Calls : calls[c].op = "all" /\ calls[c].self = 1 /\ Done(c) /\ calls[c].ret.kind = "ok" /\ Len(calls[c].log) >= 2
              /\ \E c \in Calls : calls[c].self = 1 /\ Done(c) /\ calls[c].ret.kind = "err"

\* C10: a failure returned by prev(), next() or all() carries an error that
\* a fetch of that same call returned; a call none of whose fetches failed
\* returns a success (or null for prev()/next()).
C10_NoOwnErrors == \A c \in Calls : Done(c) =>
    /\ calls[c].ret.kind = "err" => \E i \in Failures(c) : calls[c].log[i].outcome.error = calls[c].ret.error
    /\ Failures(c) = {} => calls[c].ret.kind \in (IF calls[c].op = "all" THEN {"ok"} ELSE {"ok", "null"})

\* C10 witness: a next() and an all() have each returned the failure of
\* their fetch.
C10_Witness == \E c, d \in Calls : /\ calls[c].op = "next" /\ Done(c) /\ calls[c].ret = err("E2")
                                   /\ calls[d].op = "all" /\ Done(d) /\ calls[d].ret = err("E1") /\ Len(calls[d].log) >= 2

\* The directions of the fetches of a call, in the order it invoked them.
Dirs(c) == [i \in DOMAIN calls[c].log |-> calls[c].log[i].dir]

\* C11: the fetches of one all() are strictly sequential: only the latest
\* invocation can be in flight (every earlier one has completed), and no
\* backward fetch is invoked once a forward fetch has been.
C11_FetchesSequential == \A c \in Calls : calls[c].op = "all" =>
    /\ \A i \in DOMAIN calls[c].log : calls[c].log[i].outcome.kind = "none" => (i = Len(calls[c].log) /\ calls[c].pc = "await")
    /\ \A i, j \in DOMAIN calls[c].log : (i < j /\ calls[c].log[i].dir = "next") => calls[c].log[j].dir = "next"
    /\ \A i \in DOMAIN calls[c].log : (calls[c].log[i].dir = "next" /\ i > 1) => calls[c].log[i - 1].outcome.kind = "ok"

\* C11 witness: an all() with its second forward fetch in flight after a
\* completed backward fetch.
C11_Witness == \E c \in Calls : calls[c].op = "all" /\ calls[c].pc = "await" /\ Dirs(c) = <<"prev", "next", "next">> /\ calls[c].log[3].outcome.kind = "none" /\ calls[c].log[2].outcome.kind = "ok"

\* C12: in all(), the k-th backward fetch (k >= 2) is invoked with the
\* prevToken of the cursor the (k-1)-th backward fetch returned, the first
\* forward fetch with the nextToken of the cursor all() was called on, and
\* the k-th forward fetch (k >= 2) with the nextToken of the cursor the
\* (k-1)-th forward fetch returned.
C12_WalkTokens == \A c \in Calls : calls[c].op = "all" => \A i \in DOMAIN calls[c].log :
    LET log == calls[c].log
        before == heap[log[i - 1].outcome.cursor]
    IN /\ (log[i].dir = "prev" /\ i >= 2) => (log[i - 1].dir = "prev" /\ log[i - 1].outcome.kind = "ok" /\ before.prevToken = Str(log[i].token))
       /\ (log[i].dir = "next" /\ (i = 1 \/ log[IF i = 1 THEN 1 ELSE i - 1].dir = "prev")) => Self(c).nextToken = Str(log[i].token)
       /\ (log[i].dir = "next" /\ i >= 2 /\ log[IF i = 1 THEN 1 ELSE i - 1].dir = "next") => (log[i - 1].outcome.kind = "ok" /\ before.nextToken = Str(log[i].token))

\* C12 witness: an all() that made two backward fetches and then its first
\* forward fetch, all successful.
C12_Witness == \E c \in Calls : calls[c].op = "all" /\ Done(c) /\ Dirs(c) = <<"prev", "prev", "next">> /\ calls[c].ret.kind = "ok"

\* The page of the chain a cursor holds (by its payload).
PageIndex(cur) == CHOOSE p \in 1..chain.n : cur.data = Data(p)

\* C13: a successful all() from the page with b pages before it and f pages
\* after it makes exactly b + f fetches, no token twice (none at all, with
\* the one-element result, on a cursor with neither token); a failed fetch
\* is the last fetch of its call.
C13_NothingTwice == \A c \in Calls : (calls[c].op = "all" /\ Done(c) /\ \E p \in 1..chain.n : IsPage(Self(c), p)) =>
    LET log == calls[c].log
    IN /\ calls[c].ret.kind = "ok" => Len(log) = (PageIndex(Self(c)) - 1) + (chain.n - PageIndex(Self(c)))
       /\ \A i, j \in DOMAIN log : i # j => log[i].token # log[j].token
       /\ (Self(c).prevToken = Null /\ Self(c).nextToken = Null) => (log = <<>> /\ calls[c].ret = okAll(<<Self(c).data>>))
       /\ \A i \in Failures(c) : i = Len(log)

----------------------------------------------------------------------------
\* Termination.  The client holds the cursor of some page of the chain, as
\* the request layer built it, and calls all() on it.  Every invocation of
\* the fetch capability eventually completes (with ok or err): weak fairness
\* of the completion of each call's pending fetch.  A call is followed for at
\* most MaxPages fetches, one more than a walk over the longest chain makes.

\* The record of the construction of the cursor of page p.
Constructed(p) == [made |-> TRUE, opts |-> PageOptions(chain, p, Null, Null), thrown |-> FALSE, message |-> ""]

FairInit == /\ chain \in Chains
            /\ \E p \in 1..chain.n : heap = <<constructor(PageOptions(chain, p, Null, Null)).cursor>> /\ lastNew = Constructed(p)
            /\ calls = [c \in Calls |-> IdleCall]

\* The pending fetch of call c completes, with a failure or with a page.
Complete(c) == (\E e \in YouTubesJsErrors : FetchErr(c, e)) \/ FetchOk(c, Null, Null)

Followed == \A c \in Calls : Len(calls[c].log) <= MaxPages

FairNext == \/ \E c \in Calls, id \in DOMAIN heap : Followed /\ CallAll(c, id)
            \/ \E c \in Calls : Followed /\ Complete(c)

FairSpec == FairInit /\ [][FairNext]_vars /\ \A c \in Calls : WF_vars(Followed /\ Complete(c))

\* C14: all() terminates: on the finite acyclic chain, with every fetch
\* eventually completing, every all() call eventually returns ok or err.
C14_AllTerminates == \A c \in Calls : (calls[c].op = "all") ~> (Done(c) /\ calls[c].ret.kind \in {"ok", "err"})

\* C14 witness: an all() that needed three fetches has returned.
C14_Witness == \E c \in Calls : calls[c].op = "all" /\ Done(c) /\ Len(calls[c].log) = MaxPages - 1 /\ Failures(c) = {} /\ calls[c].ret.kind = "ok"

----------------------------------------------------------------------------
\* Interleaved calls.  The client holds one cursor per page of the chain (the
\* cursor of page p is object p), as the request layer built them, and makes
\* all() calls without awaiting the earlier ones: the steps of the calls
\* interleave at their awaits in any order.

ConcInit == /\ chain \in Chains
            /\ heap = [p \in 1..chain.n |-> constructor(PageOptions(chain, p, Null, Null)).cursor]
            /\ lastNew = Constructed(chain.n)
            /\ calls = [c \in Calls |-> IdleCall]

\* The two calls whose steps interleave.
Pair == {c \in Calls : c <= 2}

\* all() called on cursor id while the other call may still be suspended.
CallAllConc(c, id) ==
    /\ c \in Pair
    /\ calls[c].pc = "idle"
    /\ \A d \in Calls : d < c => calls[d].pc # "idle"
    /\ id \in 1..chain.n
    /\ calls' = [calls EXCEPT ![c] = Stepped("all", id, <<>>, all(heap[id]))]
    /\ heap' = [heap EXCEPT ![id] = all(heap[id]).this]
    /\ UNCHANGED <<chain, lastNew>>

ConcNext == \/ \E c \in Calls, id \in DOMAIN heap : CallAllConc(c, id)
            \/ \E c \in Calls : FetchOk(c, Null, Null)
            \/ \E c \in Calls, e \in YouTubesJsErrors : FetchErr(c, e)

ConcSpec == ConcInit /\ [][ConcNext]_vars

\* The payloads fetched by the successful fetches of direction dir of call
\* c, in the order of the fetches: each is the page its token designates.
RECURSIVE Fetched(_, _, _)
Fetched(c, dir, i) == IF i > Len(calls[c].log) THEN <<>> ELSE (IF calls[c].log[i].dir = dir /\ calls[c].log[i].outcome.kind = "ok" THEN <<Data(PageOf(chain, calls[c].log[i].token))>> ELSE <<>>) \o Fetched(c, dir, i + 1)

Reverse(s) == [i \in DOMAIN s |-> s[Len(s) + 1 - i]]

\* What all() returns when it runs alone on the cursor as constructed and
\* meets the fetch outcomes call c met.
Alone(c) == IF Failures(c) # {} THEN err(calls[c].log[FirstFailure(c)].outcome.error) ELSE okAll(Reverse(Fetched(c, "prev", 1)) \o <<Data(calls[c].self)>> \o Fetched(c, "next", 1))

\* The cursors call c obtained from its fetches.
Obtained(c) == {calls[c].log[i].outcome.cursor : i \in {j \in DOMAIN calls[c].log : calls[c].log[j].outcome.kind = "ok"}}

\* C15: interleaved all() calls do not interfere: each returns what it
\* returns alone against the fetch outcomes it met, every page it fetched is
\* the page its token designates, and no two calls share a fetched cursor.
C15_NoInterference == \A c \in Calls :
    /\ (calls[c].op = "all" /\ Done(c)) => calls[c].ret = Alone(c)
    /\ \A i \in DOMAIN calls[c].log : calls[c].log[i].outcome.kind = "ok" => heap[calls[c].log[i].outcome.cursor].data = Data(PageOf(chain, calls[c].log[i].token))
    /\ \A d \in Calls \ {c} : Obtained(c) \cap Obtained(d) = {}

\* C15 witness: two all() calls on different cursors have both returned ok,
\* the fetches of the one having completed between two fetches of the other.
C15_Witness == \E c, d \in Calls : /\ c # d /\ calls[c].self # calls[d].self
                                   /\ calls[c].op = "all" /\ calls[d].op = "all" /\ Done(c) /\ Done(d)
                                   /\ calls[c].ret.kind = "ok" /\ calls[d].ret.kind = "ok"
                                   /\ Len(calls[c].log) >= 2 /\ Len(calls[d].log) >= 1
                                   /\ calls[c].log[1].outcome.cursor < calls[d].log[1].outcome.cursor
                                   /\ calls[d].log[1].outcome.cursor < calls[c].log[2].outcome.cursor

====
